---- MODULE Spec2Model ----
(***************************************************************************)
(* write-read-test (src/main.cpp): writes SIZE bytes of a seeded           *)
(* pseudo-random stream to PATH, makes them durable (fflush, fsync,        *)
(* fclose), reopens the file, regenerates the stream from the same seed    *)
(* and counts the bytes that differ.                                       *)
(*                                                                         *)
(* Strings are sequences of one-character strings.  A uint64_t is kept at  *)
(* its full width as seven base-1024 limbs, least significant first (the   *)
(* seventh limb holds the top four bits), so that `size *= 1024` wraps     *)
(* exactly as in the program.                                              *)
(***************************************************************************)
EXTENDS Integers, Sequences, FiniteSets, TLC

(* ------------------------------------------------------------------ *)
(* Bounds of the model                                                 *)
(* ------------------------------------------------------------------ *)

\* Values a byte can take (256 in the program).
ByteBase == 4
\* Bytes per generator word (8 in the program: 64-bit result_type).
WordBytes == 2
\* Words in the chunk buffer (1024 in the program).
BufWords == 2
\* Largest SIZE a modelled run is started with.
MaxSize == 10
\* Most bytes the storage corrupts between the close and the reopen.
MaxCorrupt == 2
\* Progress cadence in bytes (16 MiB in the program, 2048 buffers).
StatusInterval == 8
\* Longest numeral built digit by digit for parse_size.
MaxDigits == 2

(* ------------------------------------------------------------------ *)
(* uint64_t                                                            *)
(* ------------------------------------------------------------------ *)

\* The factor of one size unit step (size *= 1024).
Unit == 1024

\* Number of base-Unit limbs of a uint64_t and the range of the top limb:
\* 2^64 = 1024^6 * 16.
U64Limbs == 7
U64TopRange == 16

LimbRange(i) == IF i = U64Limbs THEN U64TopRange ELSE Unit

U64Zero == [i \in 1..U64Limbs |-> 0]

\* v * m + a in 64 bits: the wrapped value and whether the true value
\* exceeded 64 bits.  m and a are small (at most Unit).
MulAdd64(v, m, a) ==
    LET carry[i \in 1..(U64Limbs + 1)] ==
            IF i = 1 THEN a
            ELSE (v[i - 1] * m + carry[i - 1]) \div LimbRange(i - 1)
    IN  [val |-> [i \in 1..U64Limbs |-> (v[i] * m + carry[i]) % LimbRange(i)],
         overflow |-> carry[U64Limbs + 1] > 0]

\* A uint64_t below 2^30 as a natural number.
ToNat(v) == v[1] + Unit * v[2] + Unit * Unit * v[3]

(* ------------------------------------------------------------------ *)
(* std::from_chars (base 10, unsigned 64-bit)                          *)
(* ------------------------------------------------------------------ *)

Digits == <<"0", "1", "2", "3", "4", "5", "6", "7", "8", "9">>
IsDigit(c) == \E d \in 1..10 : Digits[d] = c
DigitVal(c) == (CHOOSE d \in 1..10 : Digits[d] = c) - 1

\* Index of the first character of sv at or after i that is no digit
\* (Len(sv) + 1 when the digits run to the end).
RECURSIVE DigitsEnd(_, _)
DigitsEnd(sv, i) ==
    IF i > Len(sv) \/ ~IsDigit(sv[i]) THEN i ELSE DigitsEnd(sv, i + 1)

\* The value of the digits sv[i..j-1], accumulated left to right from acc;
\* overflow is sticky.
RECURSIVE Accumulate(_, _, _, _)
Accumulate(sv, i, j, acc) ==
    IF i >= j \/ acc.overflow THEN acc
    ELSE Accumulate(sv, i + 1, j, MulAdd64(acc.val, 10, DigitVal(sv[i])))

\* from_chars(sv.begin(), sv.end(), value): ptr is the index of the first
\* character not consumed; value is left unmodified unless ec is "ok".
from_chars(sv, value) ==
    LET end == DigitsEnd(sv, 1)
        acc == Accumulate(sv, 1, end, [val |-> U64Zero, overflow |-> FALSE])
    IN  IF end = 1
        THEN [ptr |-> 1, ec |-> "invalid_argument", value |-> value]
        ELSE IF acc.overflow
        THEN [ptr |-> end, ec |-> "result_out_of_range", value |-> value]
        ELSE [ptr |-> end, ec |-> "ok", value |-> acc.val]

(* ------------------------------------------------------------------ *)
(* parse_size                                                          *)
(* ------------------------------------------------------------------ *)

NUL == "NUL"

\* *first_non_number: the character at ptr, the terminating NUL of the C
\* string when the digits run to its end.
CharAt(sv, ptr) == IF ptr > Len(sv) THEN NUL ELSE sv[ptr]

\* size *= 1024, k times, each wrapping modulo 2^64.
RECURSIVE MulUnit(_, _)
MulUnit(v, k) == IF k = 0 THEN v ELSE MulUnit(MulAdd64(v, Unit, 0).val, k - 1)

\* A switch without the default case.
SuffixStepsLenient(c) ==
    IF c \in {"T", "t"} THEN 4
    ELSE IF c \in {"G", "g"} THEN 3
    ELSE IF c \in {"M", "m"} THEN 2
    ELSE IF c \in {"K", "k"} THEN 1
    ELSE 0

\* The number of `size *= 1024` statements the switch runs from the case
\* label of c down to the break (the cases fall through); -1 for default.
SuffixSteps(c) ==
    IF c \in {"T", "t"} THEN 4
    ELSE IF c \in {"G", "g"} THEN 3
    ELSE IF c \in {"M", "m"} THEN 2
    ELSE IF c \in {"K", "k"} THEN 1
    ELSE IF c = NUL THEN 0
    ELSE -1

NoValue == [ok |-> FALSE, val |-> U64Zero]

parse_size(s) ==
    LET r == from_chars(s, U64Zero)
        steps == SuffixSteps(CharAt(s, r.ptr))
    IN  IF r.ec # "ok" THEN NoValue
        ELSE IF steps < 0 THEN NoValue
        ELSE [ok |-> TRUE, val |-> MulUnit(r.value, steps)]

(* ------------------------------------------------------------------ *)
(* Generator and buffers                                               *)
(* ------------------------------------------------------------------ *)

RECURSIVE Pow(_, _)
Pow(b, e) == IF e = 0 THEN 1 ELSE b * Pow(b, e - 1)

\* Number of values of a generator word, and the buffer's size in bytes
\* (std::span{buffer}.size_bytes()).
WordRange == Pow(ByteBase, WordBytes)
BufBytes == BufWords * WordBytes

\* The engine is the standard library's; it is modelled as a deterministic
\* engine whose state is a function of the seed and of the number of
\* calls made since seeding: Prng{seed} / prng.seed(seed) and prng().
PrngSeed(s) == s[1] % WordRange
PrngNext(st) == (5 * st + 3) % WordRange

\* The state after k calls of prng(); each call returns the state it
\* leaves.
RECURSIVE PrngAdvance(_, _)
PrngAdvance(st, k) == IF k = 0 THEN st ELSE PrngAdvance(PrngNext(st), k - 1)

\* for (i = 0; i < buffer.size(); ++i) buffer[i] = prng();
FillBuffer(st) == [i \in 1..BufWords |-> PrngAdvance(st, i)]

\* Byte j (from 0) of a word in the native layout, least significant first.
WordByte(w, j) == (w \div Pow(ByteBase, j)) % ByteBase

\* std::as_bytes(std::span{buf}) of a word buffer.
AsBytes(buf) ==
    [p \in 1..BufBytes |->
        WordByte(buf[((p - 1) \div WordBytes) + 1], (p - 1) % WordBytes)]

Min(a, b) == IF a < b THEN a ELSE b

\* double(a) / b * 100.0 as printed with one decimal (tenths of a
\* percent); 0.0 / 0 is NaN and a / 0 with a > 0 is infinite.
Percent(a, b) ==
    IF b = 0 THEN [nan |-> a = 0, inf |-> a # 0, tenths |-> 0]
    ELSE [nan |-> FALSE, inf |-> FALSE,
          tenths |-> (2000 * a + b) \div (2 * b)]

(* ------------------------------------------------------------------ *)
(* Inputs                                                              *)
(* ------------------------------------------------------------------ *)

\* The decimal numeral of n.
RECURSIVE Numeral(_)
Numeral(n) ==
    IF n < 10 THEN <<Digits[n + 1]>>
    ELSE Append(Numeral(n \div 10), Digits[(n % 10) + 1])

PathArg == <<"f">>

\* SIZE arguments of modelled runs: every size up to MaxSize, and
\* arguments parse_size rejects.
BadSizeArgs == { <<>>, <<"a", "b", "c">>, <<"5", "X">> }
SizeArgs == { Numeral(n) : n \in 0..MaxSize } \cup BadSizeArgs

\* SEED arguments: good syntax, bad syntax, digits with a trailing letter.
SeedArgs == { <<"1">>, <<"a", "b", "c">>, <<"2", "x">> }

Argvs ==
    { <<>>, <<PathArg>>, <<<<"1">>, <<"1">>, PathArg, PathArg>> }
    \cup { <<sz, PathArg>> : sz \in SizeArgs }
    \cup { <<sd, sz, PathArg>> : sd \in SeedArgs, sz \in SizeArgs }

\* What the destination holds before the run: nothing, or stale bytes.
StaleFiles == { <<>>, [p \in 1..(BufBytes + 1) |-> ByteBase - 1] }

\* Prng::result_type seed = 0xb473fa49a165403e
DefaultSeed == <<62, 336, 534, 294, 1018, 284, 11>>

VARIABLES
    pc,           \* position of main
    argv,         \* argv[1..argc-1]
    parsed,       \* the last result of parse_size
    seed,         \* uint64_t
    size,
    prng,         \* engine state
    file,         \* bytes of the destination
    f_out,        \* "null", "open" or "closed"
    f_in,
    rpos,         \* bytes consumed from f_in
    buffer,       \* BufWords words
    read_buffer,  \* BufBytes bytes
    bytes_left,
    num_errors,
    out,          \* lines written to std::cout
    err,          \* lines written to std::cerr
    exit_status,  \* -1 while main runs
    ops,          \* history of the file operations and their results
    written       \* history: the file as the write handle left it

vars == <<pc, argv, parsed, seed, size, prng, file, f_out, f_in, rpos, buffer,
          read_buffer, bytes_left, num_errors, out, err, exit_status, ops,
          written>>

ZeroWords == [i \in 1..BufWords |-> 0]
ZeroBytes == [i \in 1..BufBytes |-> 0]

Op(name, ok, n) == [op |-> name, ok |-> ok, n |-> n]

InitCommon ==
    /\ parsed = NoValue
    /\ seed = DefaultSeed
    /\ size = 0
    /\ prng = 0
    /\ f_out = "null"
    /\ f_in = "null"
    /\ rpos = 0
    /\ buffer = ZeroWords
    /\ read_buffer = ZeroBytes
    /\ bytes_left = 0
    /\ num_errors = 0
    /\ out = <<>>
    /\ err = <<>>
    /\ exit_status = -1
    /\ ops = <<>>
    /\ written = <<>>

Init ==
    /\ pc = "args"
    /\ argv \in Argvs
    /\ file \in StaleFiles
    /\ InitCommon

(* ------------------------------------------------------------------ *)
(* main: argument handling (lines 58-87)                               *)
(* ------------------------------------------------------------------ *)

\* return 1 after a diagnostic on std::cerr.
Fail(msg) ==
    /\ pc' = "Failed"
    /\ exit_status' = 1
    /\ err' = Append(err, msg)

\* The seed main continues with after from_chars returned r for argv[1].
SeedAfter(r) == r.value

ParseArgs ==
    /\ pc = "args"
    /\ LET argc == Len(argv) + 1 IN
       IF argc = 3 THEN
            LET p == parse_size(argv[1]) IN
            /\ parsed' = p
            /\ seed' = seed
            /\ IF ~p.ok
               THEN /\ Fail(<<"Failed to parse size:", argv[1]>>)
                    /\ UNCHANGED <<size, prng>>
               ELSE /\ size' = ToNat(p.val)
                    /\ prng' = PrngSeed(seed')
                    /\ pc' = "fopen_out"
                    /\ UNCHANGED <<err, exit_status>>
       ELSE IF argc = 4 THEN
            LET r == from_chars(argv[1], seed)
                p == parse_size(argv[2])
                e1 == IF r.ec # "ok"
                      THEN Append(err, <<"Failed to parse seed:", argv[1]>>)
                      ELSE err
            IN
            /\ parsed' = p
            /\ seed' = SeedAfter(r)
            /\ IF ~p.ok
               THEN /\ pc' = "Failed"
                    /\ exit_status' = 1
                    /\ err' = Append(e1, <<"Failed to parse size:", argv[2]>>)
                    /\ UNCHANGED <<size, prng>>
               ELSE /\ size' = ToNat(p.val)
                    /\ prng' = PrngSeed(seed')
                    /\ pc' = "fopen_out"
                    /\ err' = e1
                    /\ UNCHANGED exit_status
       ELSE
            /\ Fail(<<"USAGE">>)
            /\ UNCHANGED <<parsed, seed, size, prng>>
    /\ UNCHANGED <<argv, file, f_out, f_in, rpos, buffer, read_buffer,
                   bytes_left, num_errors, out, ops, written>>

(* ------------------------------------------------------------------ *)
(* main: write phase (lines 89-115)                                    *)
(* ------------------------------------------------------------------ *)


\* A destination opened without truncation keeps its old content.
TruncatedKeep(f) == f

\* What fopen(path, "wb") leaves of the destination's old content.
Truncated(f) == <<>>

\* std::fopen(path.c_str(), "wb") and the initialisation of the loop.
FopenOut ==
    /\ pc = "fopen_out"
    /\ \/ /\ ops' = Append(ops, Op("fopen_wb", FALSE, 0))
          /\ Fail(<<"Failed to open file for writing">>)
          /\ UNCHANGED <<file, f_out, buffer, bytes_left>>
       \/ /\ ops' = Append(ops, Op("fopen_wb", TRUE, 0))
          /\ file' = Truncated(file)
          /\ f_out' = "open"
          /\ buffer' = ZeroWords
          /\ bytes_left' = size
          /\ pc' = "wloop"
          /\ UNCHANGED <<err, exit_status>>
    /\ UNCHANGED <<argv, parsed, seed, size, prng, f_in, rpos, read_buffer,
                   num_errors, out, written>>


\* A write of the whole buffer whatever is left.
BytesToWriteFull(left) == BufBytes

\* A counter decreased by the buffer's capacity whatever was transferred,
\* and one that is not decreased.
DecrementFull(left, n) == left - BufBytes
DecrementNone(left, n) == left

\* bytes_left -= bytes_to_write / bytes_left -= bytes_to_read.  The
\* program never subtracts more than is left; a negative result stands for
\* the wrapped value of an underflow.
Decrement(left, n) == left - n

\* std::min(bytes_left, std::span{buffer}.size_bytes())
BytesToWrite(left) == Min(left, BufBytes)

\* A line on std::cout: its label, the count and the percentage it shows.
NoPercent == [nan |-> FALSE, inf |-> FALSE, tenths |-> 0]
Line(label, n, pct) == [line |-> label, n |-> n, pct |-> pct]

\* The status line of a loop iteration, when one is due.
Progress(label, done, left) ==
    IF done % StatusInterval = 0 \/ left = 0
    THEN Append(out, Line(label, done, Percent(done, size)))
    ELSE out

\* One iteration of the write loop; fwrite accepts k bytes.
WriteIter ==
    /\ pc = "wloop"
    /\ bytes_left > 0
    /\ LET words == FillBuffer(prng)
           bytes_to_write == BytesToWrite(bytes_left)
       IN
       /\ buffer' = words
       /\ prng' = PrngAdvance(prng, BufWords)
       /\ \E k \in 0..bytes_to_write :
            /\ file' = file \o SubSeq(AsBytes(words), 1, k)
            /\ ops' = Append(ops, Op("fwrite", k = bytes_to_write, k))
            /\ IF k < bytes_to_write
               THEN /\ Fail(<<"Failed to write to file">>)
                    /\ UNCHANGED <<bytes_left, out>>
               ELSE /\ bytes_left' = Decrement(bytes_left, bytes_to_write)
                    /\ out' = Progress("Writing", size - bytes_left', bytes_left')
                    /\ UNCHANGED <<pc, err, exit_status>>
    /\ UNCHANGED <<argv, parsed, seed, size, f_out, f_in, rpos, read_buffer,
                   num_errors, written>>

(* ------------------------------------------------------------------ *)
(* main: durability barrier (lines 116-136)                            *)
(* ------------------------------------------------------------------ *)


\* A result that is not checked.
FsyncUnchecked(ok) == FALSE
FcloseUnchecked(ok) == FALSE

\* The conditions of the three checks, from whether the call succeeded:
\* if (std::fflush(f_out)), if (fsync(fd_out)), if (std::fclose(f_out)).
FflushFails(ok) == ~ok
FsyncFails(ok) == ~ok
FcloseFails(ok) == ~ok

Fflush ==
    /\ pc = "wloop"
    /\ bytes_left = 0
    /\ \E ok \in BOOLEAN :
         /\ ops' = Append(ops, Op("fflush", ok, 0))
         /\ IF FflushFails(ok)
            THEN Fail(<<"Failed to flush file writes">>)
            ELSE /\ pc' = "fileno"
                 /\ UNCHANGED <<err, exit_status>>
    /\ UNCHANGED <<argv, parsed, seed, size, prng, file, f_out, f_in, rpos,
                   buffer, read_buffer, bytes_left, num_errors, out, written>>

Fileno ==
    /\ pc = "fileno"
    /\ \E ok \in BOOLEAN :
         /\ ops' = Append(ops, Op("fileno", ok, 0))
         /\ IF ~ok
            THEN Fail(<<"Failed to get output file descriptor">>)
            ELSE /\ pc' = "fsync"
                 /\ UNCHANGED <<err, exit_status>>
    /\ UNCHANGED <<argv, parsed, seed, size, prng, file, f_out, f_in, rpos,
                   buffer, read_buffer, bytes_left, num_errors, out, written>>

Fsync ==
    /\ pc = "fsync"
    /\ \E ok \in BOOLEAN :
         /\ ops' = Append(ops, Op("fsync", ok, 0))
         /\ IF FsyncFails(ok)
            THEN Fail(<<"Failed to sync file writes to disk">>)
            ELSE /\ pc' = "fclose"
                 /\ UNCHANGED <<err, exit_status>>
    /\ UNCHANGED <<argv, parsed, seed, size, prng, file, f_out, f_in, rpos,
                   buffer, read_buffer, bytes_left, num_errors, out, written>>


\* A read phase that goes on with the engine as the write phase left it.
ReseedNone(st, s) == st

\* A reseed with the built-in seed instead of the run's.
ReseedDefault(st, s) == PrngSeed(DefaultSeed)

\* The engine state prng.seed(seed) leaves, from the state st before it.
Reseed(st, s) == PrngSeed(s)

\* A handle that stays open.
AfterFcloseLeak(h) == h

\* The write handle after std::fclose(f_out).
AfterFclose(h) == "closed"

\* std::fclose(f_out), then the summary of the write phase and the reseed.
\* The stream is closed whether or not fclose reports an error.
Fclose ==
    /\ pc = "fclose"
    /\ f_out' = AfterFclose(f_out)
    /\ written' = file
    /\ \E ok \in BOOLEAN :
         /\ ops' = Append(ops, Op("fclose", ok, 0))
         /\ IF FcloseFails(ok)
            THEN /\ Fail(<<"Failed to close written file">>)
                 /\ UNCHANGED <<out, prng>>
            ELSE /\ out' = Append(out, Line("Wrote", size, NoPercent))
                 /\ prng' = Reseed(prng, seed)
                 /\ pc' = "fopen_in"
                 /\ UNCHANGED <<err, exit_status>>
    /\ UNCHANGED <<argv, parsed, seed, size, file, f_in, rpos, buffer,
                   read_buffer, bytes_left, num_errors>>

(* ------------------------------------------------------------------ *)
(* The storage between the close and the reopen                        *)
(* ------------------------------------------------------------------ *)

\* Offsets (from 1) at which the file differs from what was written.
Corrupted == { p \in 1..Min(Len(file), Len(written)) : file[p] # written[p] }

\* The storage changes one more byte of the closed file.
Corrupt ==
    /\ pc = "fopen_in"
    /\ Cardinality(Corrupted) < MaxCorrupt
    /\ \E p \in (1..Len(file)) \ Corrupted : \E d \in {1, ByteBase - 1} :
         file' = [file EXCEPT ![p] = (@ + d) % ByteBase]
    /\ UNCHANGED <<pc, argv, parsed, seed, size, prng, f_out, f_in, rpos,
                   buffer, read_buffer, bytes_left, num_errors, out, err,
                   exit_status, ops, written>>

(* ------------------------------------------------------------------ *)
(* main: read phase and report (lines 138-175)                         *)
(* ------------------------------------------------------------------ *)

\* std::fopen(path.c_str(), "rb") and the initialisation of the loop.
FopenIn ==
    /\ pc = "fopen_in"
    /\ \/ /\ ops' = Append(ops, Op("fopen_rb", FALSE, 0))
          /\ Fail(<<"Failed to open file for reading">>)
          /\ UNCHANGED <<f_in, rpos, read_buffer, num_errors, bytes_left>>
       \/ /\ ops' = Append(ops, Op("fopen_rb", TRUE, 0))
          /\ f_in' = "open"
          /\ rpos' = 0
          /\ read_buffer' = ZeroBytes
          /\ num_errors' = 0
          /\ bytes_left' = size
          /\ pc' = "rloop"
          /\ UNCHANGED <<err, exit_status>>
    /\ UNCHANGED <<argv, parsed, seed, size, prng, file, f_out, buffer, out,
                   written>>

\* std::min(bytes_left, std::span{read_buffer}.size_bytes())
BytesToRead(left) == Min(left, BufBytes)


\* A compare loop that stops one byte early.
MismatchesSkipLast(read_bytes, buffer_bytes, n) ==
    Cardinality({ i \in 1..(n - 1) : read_bytes[i] # buffer_bytes[i] })

\* A compare loop that stops at the first mismatch, and one that runs over
\* the whole buffer.
MismatchesFirstOnly(read_bytes, buffer_bytes, n) ==
    IF \E i \in 1..n : read_bytes[i] # buffer_bytes[i] THEN 1 ELSE 0
MismatchesWholeBuffer(read_bytes, buffer_bytes, n) ==
    Cardinality({ i \in 1..BufBytes : read_bytes[i] # buffer_bytes[i] })

\* The increments of num_errors by the compare loop over i < n.
Mismatches(read_bytes, buffer_bytes, n) ==
    Cardinality({ i \in 1..n : read_bytes[i] # buffer_bytes[i] })

\* A counter that restarts with every iteration.
AccumulatedReset(n, m) == m

\* num_errors after m increments (++num_errors).
Accumulated(n, m) == n + m

\* One iteration of the read loop; fread returns k bytes.
ReadIter ==
    /\ pc = "rloop"
    /\ bytes_left > 0
    /\ LET words == FillBuffer(prng)
           bytes_to_read == BytesToRead(bytes_left)
           avail == Len(file) - rpos
       IN
       /\ buffer' = words
       /\ prng' = PrngAdvance(prng, BufWords)
       /\ \E k \in 0..Min(bytes_to_read, avail) :
            LET rb == [i \in 1..BufBytes |->
                          IF i <= k THEN file[rpos + i] ELSE read_buffer[i]]
            IN
            /\ read_buffer' = rb
            /\ rpos' = rpos + k
            /\ ops' = Append(ops, Op("fread", k = bytes_to_read, k))
            /\ IF k < bytes_to_read
               THEN /\ Fail(<<"Failed to read to file">>)
                    /\ UNCHANGED <<bytes_left, num_errors, out>>
               ELSE /\ bytes_left' = Decrement(bytes_left, bytes_to_read)
                    /\ num_errors' =
                           Accumulated(num_errors,
                               Mismatches(rb, AsBytes(words), bytes_to_read))
                    /\ out' = Progress("Reading", size - bytes_left', bytes_left')
                    /\ UNCHANGED <<pc, err, exit_status>>
    /\ UNCHANGED <<argv, parsed, seed, size, file, f_out, f_in, written>>


\* A run that reports mismatches through its exit status.
ExitStatusErrors(n) == IF n > 0 THEN 1 ELSE 0

\* The value main returns after the report.
ExitStatus(n) == 0

\* error_percent, the two summary lines, and the return from main.
Report ==
    /\ pc = "rloop"
    /\ bytes_left = 0
    /\ LET error_percent == Percent(num_errors, size) IN
       out' = out \o << Line("Read", size, NoPercent),
                        Line("Found", num_errors, error_percent) >>
    /\ pc' = "Done"
    /\ exit_status' = ExitStatus(num_errors)
    /\ UNCHANGED <<argv, parsed, seed, size, prng, file, f_out, f_in, rpos,
                   buffer, read_buffer, bytes_left, num_errors, err, ops,
                   written>>

Next ==
    \/ ParseArgs
    \/ FopenOut
    \/ WriteIter
    \/ Fflush
    \/ Fileno
    \/ Fsync
    \/ Fclose
    \/ Corrupt
    \/ FopenIn
    \/ ReadIter
    \/ Report

Spec == Init /\ [][Next]_vars

\* The steps of main.  main runs on: whenever it has a step to take it
\* takes one (every call it makes returns).  The storage owes no step.
MainStep ==
    \/ ParseArgs
    \/ FopenOut
    \/ WriteIter
    \/ Fflush
    \/ Fileno
    \/ Fsync
    \/ Fclose
    \/ FopenIn
    \/ ReadIter
    \/ Report

FairSpec == Spec /\ WF_vars(MainStep)

(* ------------------------------------------------------------------ *)
(* parse_size on its own                                               *)
(* ------------------------------------------------------------------ *)

\* Numerals given to parse_size: every numeral of up to MaxDigits digits,
\* and numerals around 2^24, 2^54 and 2^64.
SmallNumerals == { Numeral(n) : n \in 0..(Pow(10, MaxDigits) - 1) }
EdgeNumerals ==
    { <<"0", "0", "7">>,
      Numeral(1023), Numeral(1024), Numeral(16777215), Numeral(16777216),
      Numeral(1801439850) \o Numeral(9481983),
      Numeral(1801439850) \o Numeral(9481984),
      Numeral(1844674407) \o Numeral(370955161) \o <<"5">>,
      Numeral(1844674407) \o Numeral(370955161) \o <<"6">>,
      Numeral(999999999) \o Numeral(999999999) \o <<"9", "9">> }

\* What follows the digits, and what precedes them.
Suffixes ==
    { <<>>, <<"K">>, <<"k">>, <<"M">>, <<"m">>, <<"G">>, <<"g">>, <<"T">>,
      <<"t">>, <<"X">>, <<"B">>, <<"-">>, <<" ">>, <<"K", "B">>, <<"x", "K">> }
Prefixes == { <<"a">>, <<"-">>, <<"+">>, <<" ">>, <<"K">> }

ParseInputs ==
    { n \o x : n \in SmallNumerals \cup EdgeNumerals \cup {<<>>}, x \in Suffixes }
    \cup { q \o n \o x : q \in Prefixes, n \in {<<>>, <<"5">>}, x \in Suffixes }

InitParse ==
    /\ pc = "parse_size"
    /\ argv \in { <<s>> : s \in ParseInputs }
    /\ file = <<>>
    /\ InitCommon

\* parsed = parse_size(argv[1])
ParseSizeCall ==
    /\ pc = "parse_size"
    /\ parsed' = parse_size(argv[1])
    /\ pc' = "parsed"
    /\ UNCHANGED <<argv, seed, size, prng, file, f_out, f_in, rpos, buffer,
                   read_buffer, bytes_left, num_errors, out, err, exit_status,
                   ops, written>>

NextParse == ParseSizeCall

ParseSpec == InitParse /\ [][NextParse]_vars

(* ------------------------------------------------------------------ *)
(* Properties                                                          *)
(* ------------------------------------------------------------------ *)

Running == pc \notin {"Done", "Failed"}

\* C1 (round trip): a run that reaches the end with the file read back as
\* it was written (no byte corrupted) ends with num_errors = 0.
RoundTrip ==
    (pc = "Done" /\ Corrupted = {}) => num_errors = 0

RoundTripWitness ==
    /\ pc = "Done"
    /\ Corrupted = {}
    /\ Len(file) = size
    /\ size > BufBytes
    /\ size % BufBytes # 0
    /\ seed # DefaultSeed
    /\ num_errors = 0

\* C2 (corruption detection): a run that reaches the end after exactly one
\* byte of the closed file was changed ends with num_errors >= 1.
CorruptionDetected ==
    (pc = "Done" /\ Cardinality(Corrupted) = 1) => num_errors >= 1

CorruptionDetectedWitness ==
    /\ pc = "Done"
    /\ size > BufBytes
    /\ size % BufBytes # 0
    /\ Corrupted = {size}
    /\ num_errors >= 1

\* Indices in the history of the operations named in names.
OpIdx(names) == { i \in 1..Len(ops) : ops[i].op \in names }

\* Total of the byte counts of the fwrite calls before index a.
RECURSIVE WrittenBefore(_)
WrittenBefore(a) ==
    IF a <= 1 THEN 0
    ELSE WrittenBefore(a - 1)
         + (IF ops[a - 1].op = "fwrite" THEN ops[a - 1].n ELSE 0)

\* C3 (durability gating): the open for reading and every read come after
\* a successful fflush, fsync and fclose, in that order, which come after
\* writes that succeeded and total size bytes; once one of the three has
\* failed there is no open for reading and no read.
DurabilityGating ==
    /\ \A r \in OpIdx({"fopen_rb", "fread"}) :
         \E c \in 1..(r - 1) :
            /\ ops[c] = Op("fclose", TRUE, 0)
            /\ \E b \in 1..(c - 1) :
                 /\ ops[b] = Op("fsync", TRUE, 0)
                 /\ \E a \in 1..(b - 1) :
                      /\ ops[a] = Op("fflush", TRUE, 0)
                      /\ \A w \in OpIdx({"fwrite"}) : w < a /\ ops[w].ok
                      /\ WrittenBefore(a) = size
    /\ (\E i \in OpIdx({"fflush", "fsync", "fclose"}) : ~ops[i].ok)
         => /\ OpIdx({"fopen_rb", "fread"}) = {}
            /\ f_in = "null"
    /\ f_in = "open" => f_out = "closed" /\ Len(written) = size

DurabilityGatingWitness ==
    /\ pc = "rloop"
    /\ size > BufBytes
    /\ rpos > BufBytes
    /\ f_in = "open"

\* Labels of the lines on std::cout.
OutLabels == { out[i].line : i \in 1..Len(out) }

\* C4 (every failure is terminal): a failed file operation is the last
\* operation of the run, the run is in Failed with a non-zero exit status,
\* and no summary of that phase or a later one was printed.
FailureIsTerminal ==
    \A i \in 1..Len(ops) :
        ~ops[i].ok =>
            /\ i = Len(ops)
            /\ pc = "Failed"
            /\ exit_status # 0 /\ exit_status # -1
            /\ OutLabels \cap {"Read", "Found"} = {}
            /\ ops[i].op \notin {"fopen_rb", "fread"}
                 => /\ OutLabels \cap {"Wrote", "Reading"} = {}
                    /\ f_in = "null"
            /\ ops[i].op = "fopen_wb" => f_out = "null" /\ OutLabels = {}

FailureIsTerminalWitness ==
    /\ pc = "Failed"
    /\ Len(ops) > 0
    /\ ops[Len(ops)].op = "fread"
    /\ ~ops[Len(ops)].ok
    /\ rpos > BufBytes
    /\ exit_status = 1

\* C5 (a SEED with bad syntax is fatal): with three arguments of which
\* SEED does not parse, the run ends in Failed with a non-zero exit status
\* before the destination is opened.
BadSeedIsFatal ==
    (/\ Len(argv) = 3
     /\ from_chars(argv[1], DefaultSeed).ec # "ok"
     /\ pc # "args")
        => /\ pc = "Failed"
           /\ exit_status = 1
           /\ ops = <<>>
           /\ f_out = "null"

\* C6 (mismatches are data): a run whose file operations all succeed never
\* fails and can always go on until Done; at Done the exit status is 0 and
\* the summary with the mismatch count is the last output, whatever the
\* count.
MismatchesAreData ==
    /\ pc = "Done" =>
          /\ exit_status = 0
          /\ Len(out) >= 2
          /\ out[Len(out) - 1].line = "Read"
          /\ out[Len(out)].line = "Found"
          /\ out[Len(out)].n = num_errors
    /\ (pc = "Failed" /\ ops # <<>>) => ~ops[Len(ops)].ok
    /\ (Running /\ pc # "args") => ENABLED Next

MismatchesAreDataWitness ==
    /\ pc = "Done"
    /\ num_errors > 1
    /\ exit_status = 0

\* The calls of one kind in the history, in order.
Calls(name) == SelectSeq(ops, LAMBDA o : o.op = name)

\* The j-th transfer of a phase moves min(remaining, capacity) bytes.
ChunksExact(calls) ==
    \A j \in 1..Len(calls) :
        /\ calls[j].n <= BufBytes
        /\ calls[j].n <= size - (j - 1) * BufBytes
        /\ calls[j].ok => calls[j].n = Min(size - (j - 1) * BufBytes, BufBytes)

\* C7 (exact length): every transfer moves min(remaining, capacity) bytes,
\* no byte beyond offset size is written or read, and a run that completes
\* has written exactly size bytes and read exactly size bytes.
ExactLength ==
    /\ ChunksExact(Calls("fwrite"))
    /\ ChunksExact(Calls("fread"))
    /\ f_out # "null" => Len(file) <= size
    /\ rpos <= size
    /\ pc = "Done" =>
          /\ Len(written) = size
          /\ Len(file) = size
          /\ rpos = size
          /\ WrittenBefore(Len(ops) + 1) = size

ExactLengthWitness ==
    /\ pc = "Done"
    /\ size = 2 * BufBytes + 1
    /\ Len(Calls("fwrite")) = 3
    /\ Calls("fread")[3].n = 1

\* Byte at offset p (from 0) of the stream of seed s: byte p mod capacity
\* of chunk p div capacity, the chunks being successive fills from s.
StreamByte(s, p) ==
    LET c == p \div BufBytes
        chunk == [i \in 1..BufWords |->
                     PrngAdvance(PrngSeed(s), c * BufWords + i)]
    IN  AsBytes(chunk)[(p % BufBytes) + 1]

Stream(s, n) == [p \in 1..n |-> StreamByte(s, p - 1)]

\* C8 (file content): while the write handle is open and no write has
\* failed the file is the first size - bytes_left bytes of the stream of
\* the seed, and the closed file is its first size bytes.
FileContent ==
    /\ (f_out = "open" /\ \A w \in OpIdx({"fwrite"}) : ops[w].ok)
          => file = Stream(seed, size - bytes_left)
    /\ (f_out = "closed" /\ pc # "Failed") => written = Stream(seed, size)

FileContentWitness ==
    /\ pc = "fopen_in"
    /\ f_out = "closed"
    /\ size > BufBytes
    /\ size % BufBytes # 0
    /\ Len(written) = size

\* The lines on std::cout that show a percentage.
PercentLines ==
    { i \in 1..Len(out) : out[i].line \in {"Writing", "Reading", "Found"} }

\* C9 (zero-size run): a run with SIZE = 0 that completes exits with
\* status 0, has written and read 0 bytes, found 0 mismatches, and every
\* percentage it printed is 100.0.
ZeroSizeRun ==
    (pc = "Done" /\ size = 0) =>
        /\ exit_status = 0
        /\ written = <<>>
        /\ rpos = 0
        /\ num_errors = 0
        /\ \A i \in PercentLines :
              out[i].pct = [nan |-> FALSE, inf |-> FALSE, tenths |-> 1000]

(* Exact values of any size, as base-Unit limbs, for the statement of     *)
(* what parse_size is to return.                                          *)
BigLimbs == 2 * U64Limbs
BigZero == [i \in 1..BigLimbs |-> 0]

BigMulAdd(v, m, a) ==
    LET carry[i \in 1..BigLimbs] ==
            IF i = 1 THEN a ELSE (v[i - 1] * m + carry[i - 1]) \div Unit
    IN  [i \in 1..BigLimbs |-> (v[i] * m + carry[i]) % Unit]

\* The number the digits d[1..j] denote.
RECURSIVE BigDecimal(_, _)
BigDecimal(d, j) ==
    IF j = 0 THEN BigZero
    ELSE BigMulAdd(BigDecimal(d, j - 1), 10, DigitVal(d[j]))

\* v * Unit^k.
BigTimesUnits(v, k) == [i \in 1..BigLimbs |-> IF i <= k THEN 0 ELSE v[i - k]]

BigOfU64(v) == [i \in 1..BigLimbs |-> IF i <= U64Limbs THEN v[i] ELSE 0]

BigFitsU64(v) ==
    /\ v[U64Limbs] < U64TopRange
    /\ \A i \in (U64Limbs + 1)..BigLimbs : v[i] = 0

\* The power of 1024 a suffix character stands for; -1 for none.
UnitPower(c) ==
    CASE c = NUL -> 0
      [] c \in {"K", "k"} -> 1
      [] c \in {"M", "m"} -> 2
      [] c \in {"G", "g"} -> 3
      [] c \in {"T", "t"} -> 4
      [] OTHER -> -1

\* C10 (size parsing): parse_size rejects an input that does not start
\* with a digit (the empty input included) and one whose character after
\* the digits is no suffix; for digits n followed by nothing or by a
\* suffix it returns a value whenever n * 1024^k fits 64 bits, and a value
\* it returns is n * 1024^k.
ParseSizeContract ==
    pc = "parsed" =>
        LET s == argv[1]
            e == DigitsEnd(s, 1)
            k == UnitPower(CharAt(s, e))
            want == BigTimesUnits(BigDecimal(s, e - 1), k)
        IN  IF e = 1 \/ k < 0 THEN ~parsed.ok
            ELSE /\ BigFitsU64(want) => parsed.ok
                 /\ parsed.ok => BigOfU64(parsed.val) = want

\* The SIZE argument of an invocation with two or three arguments.
SizeArg == IF Len(argv) = 2 THEN argv[1] ELSE argv[2]

\* A SIZE that does not start with a digit or whose character after the
\* digits is no suffix.
SizeSyntaxBad(s) ==
    LET e == DigitsEnd(s, 1)
    IN  e = 1 \/ UnitPower(CharAt(s, e)) < 0

BadInvocation == Len(argv) \notin {2, 3} \/ SizeSyntaxBad(SizeArg)

\* C11 (bad invocation leaves the destination untouched): with a wrong
\* number of arguments or a SIZE that does not parse, the run ends in
\* Failed with a non-zero exit status, no file operation was made, no
\* handle was opened and the destination holds what it held.
BadInvocationUntouched ==
    (BadInvocation /\ pc # "args") =>
        /\ pc = "Failed"
        /\ exit_status = 1
        /\ ops = <<>>
        /\ f_out = "null"
        /\ f_in = "null"
        /\ file \in StaleFiles
        /\ out = <<>>

BadInvocationUntouchedWitness ==
    /\ pc = "Failed"
    /\ Len(argv) = 3
    /\ argv[2] = <<"5", "X">>
    /\ file # <<>>
    /\ ops = <<>>
    /\ exit_status = 1

\* Offsets (from 1) below n at which the file differs from the stream of
\* the seed.
Differing(n) == { p \in 1..n : file[p] # StreamByte(seed, p - 1) }

\* C12 (exhaustive comparison): throughout the read phase num_errors is
\* the number of offsets, among the bytes read so far, at which the file
\* differs from the stream of the seed; at Done it is the number of bytes
\* that were corrupted.
ExhaustiveComparison ==
    /\ f_in = "open" => num_errors = Cardinality(Differing(size - bytes_left))
    /\ pc = "Done" => num_errors = Cardinality(Corrupted)

ExhaustiveComparisonWitness ==
    /\ pc = "Done"
    /\ size > BufBytes
    /\ size % BufBytes # 0
    /\ Cardinality(Corrupted) = 2
    /\ size \in Corrupted
    /\ num_errors = 2

\* C13 (reseeded reference mirrors the write phase): after every iteration
\* of the read loop the reference bytes in buffer are the bytes the write
\* phase wrote at the offsets of that chunk, the engine has made BufWords
\* calls per iteration since it was reseeded with the seed, and a completed
\* run made as many read iterations as write iterations.
ReferenceMirrorsWrite ==
    /\ f_in = "open" =>
          LET j == Len(Calls("fread")) IN
          /\ prng = PrngAdvance(PrngSeed(seed), BufWords * j)
          /\ j > 0 =>
                \A i \in 1..Min(BufBytes, size - (j - 1) * BufBytes) :
                    AsBytes(buffer)[i] = written[(j - 1) * BufBytes + i]
    /\ pc = "Done" => Len(Calls("fread")) = Len(Calls("fwrite"))

ReferenceMirrorsWriteWitness ==
    /\ pc = "Done"
    /\ seed # DefaultSeed
    /\ size > BufBytes
    /\ size % BufBytes # 0
    /\ Len(Calls("fread")) = 3

\* A completed iteration of the write loop or of the read loop.
LoopIteration ==
    \/ pc = "wloop" /\ pc' = "wloop"
    \/ pc = "rloop" /\ pc' = "rloop"

\* C14 (progress counters): bytes_left stays between 0 and size, so the
\* bytes processed, size - bytes_left, do too, and every completed loop
\* iteration of either phase strictly increases the bytes processed.
ProgressCounters ==
    /\ [](bytes_left >= 0 /\ bytes_left <= size)
    /\ [][LoopIteration =>
            size - bytes_left' > size - bytes_left]_vars

ProgressCountersWitness ==
    /\ pc = "rloop"
    /\ size > BufBytes
    /\ bytes_left = 1
    /\ size - bytes_left = 2 * BufBytes

\* C15 (exclusive ownership of the file handle): the write handle and the
\* read handle are never open together, and the read handle is open only
\* after an fclose of the write handle that succeeded and that precedes
\* the open for reading.
ExclusiveOwnership ==
    /\ ~(f_out = "open" /\ f_in = "open")
    /\ f_in = "open" =>
          /\ f_out = "closed"
          /\ \E c \in OpIdx({"fclose"}) :
                /\ ops[c].ok
                /\ \A r \in OpIdx({"fopen_rb"}) : c < r

ExclusiveOwnershipWitness ==
    /\ f_in = "open"
    /\ f_out = "closed"
    /\ pc = "Done"

\* C16 (representable target size): for digits n followed by nothing or
\* by a suffix, parse_size returns n * 1024^k when that fits 64 bits and
\* returns no value when it does not.
SizeNeverWrapped ==
    pc = "parsed" =>
        LET s == argv[1]
            e == DigitsEnd(s, 1)
            k == UnitPower(CharAt(s, e))
            want == BigTimesUnits(BigDecimal(s, e - 1), k)
        IN  (e > 1 /\ k >= 0) =>
                IF BigFitsU64(want)
                THEN parsed.ok /\ BigOfU64(parsed.val) = want
                ELSE ~parsed.ok

\* Iterations a phase needs for n bytes.
CeilDiv(n, d) == (n + d - 1) \div d

\* C17 (termination): every run reaches Done or Failed; a completed loop
\* iteration decreases bytes_left by min(bytes_left, capacity), which is
\* at least 1, and neither phase makes more than ceil(size / capacity)
\* iterations.
Termination ==
    /\ <>(pc \in {"Done", "Failed"})
    /\ [](/\ Len(Calls("fwrite")) <= CeilDiv(size, BufBytes)
          /\ Len(Calls("fread")) <= CeilDiv(size, BufBytes))
    /\ [][LoopIteration =>
            /\ bytes_left - bytes_left' = Min(bytes_left, BufBytes)
            /\ bytes_left - bytes_left' >= 1]_vars

TerminationWitness ==
    /\ pc = "Done"
    /\ size = MaxSize
    /\ Len(Calls("fwrite")) = CeilDiv(MaxSize, BufBytes)
    /\ Len(Calls("fread")) = CeilDiv(MaxSize, BufBytes)

\* C18 (the mismatch counter only grows): num_errors is 0 when the read
\* handle is opened and no step decreases it.
MismatchCounterMonotone ==
    [][/\ (f_in # "open" /\ f_in' = "open") => num_errors' = 0
       /\ num_errors' >= num_errors]_vars

MismatchCounterMonotoneWitness ==
    /\ pc = "rloop"
    /\ bytes_left > 0
    /\ num_errors = 2

\* C19 (no stale data is compared): a completed read iteration of n bytes
\* leaves every reference word drawn from the engine by that iteration and
\* the first n bytes of read_buffer read from the file by that iteration,
\* and increases num_errors by the number of differences among those n
\* bytes only, whatever the rest of either buffer holds.
NoStaleData ==
    [][(pc = "rloop" /\ pc' = "rloop") =>
          LET n == bytes_left - bytes_left' IN
          /\ n = Min(bytes_left, BufBytes)
          /\ \A w \in 1..BufWords : buffer'[w] = PrngAdvance(prng, w)
          /\ \A i \in 1..n : read_buffer'[i] = file[rpos + i]
          /\ \A i \in (n + 1)..BufBytes : read_buffer'[i] = read_buffer[i]
          /\ num_errors' =
                num_errors
                + Cardinality({ i \in 1..n :
                                  file[rpos + i] # AsBytes(buffer')[i] })]_vars

\* A completed run whose last chunk was short and left a stale byte in
\* read_buffer that differs from the reference byte beside it.
NoStaleDataWitness ==
    /\ pc = "Done"
    /\ size > BufBytes
    /\ size % BufBytes # 0
    /\ read_buffer[BufBytes] # AsBytes(buffer)[BufBytes]
    /\ num_errors = 0

====
